---- MODULE Spec2Model ----
(***************************************************************************)
(* A model of the core of MuzikManagur (Core.py): the time formatter, the  *)
(* tag extractor, directory induction, the filename formatter, the         *)
(* collision-avoiding rename and the reorder pipeline with its breaker.    *)
(*                                                                         *)
(* Python strings are sequences of one-character strings, so that split,   *)
(* rsplit, replace, str() and concatenation are computed, not assumed.     *)
(***************************************************************************)
EXTENDS Integers, Sequences, FiniteSets, TLC

VARIABLES
    files,      \* the file system's regular files: path -> content
    dirs,       \* the file system's directories (paths without trailing '/')
    rlog,       \* CoreLog._run_log
    elog,       \* CoreLog._error_log
    ncalls,     \* how many operations were called so far
    call,       \* the last operation: its arguments, the state before, its outcome
    landed,     \* rename_file: the indices of the successive collision landings
    handles,    \* tag-library file handles that are open
    pc,         \* reorder_folder: where the call stands
    flist,      \* reorder_folder: files, as induct_folder returned it
    file_i,     \* reorder_folder: i, the index of the file the loop is at
    er_count,   \* reorder_folder: er_count
    attempted,  \* reorder_folder: the indices of the files attempted, in order
    answers,    \* reorder_folder: what input() returned at the prompt, in order
    nfailed,    \* reorder_folder: how many files failed so far
    raised      \* reorder_folder: the exception that ended the call, if any

vars == <<files, dirs, rlog, elog, ncalls, call, landed, handles,
          pc, flist, file_i, er_count, attempted, answers, nfailed, raised>>

----------------------------------------------------------------------------
(* Strings *)

Digits == <<"0", "1", "2", "3", "4", "5", "6", "7", "8", "9">>

\* str(n) for n >= 0: the decimal digits
RECURSIVE str(_)
str(n) == IF n < 10 THEN <<Digits[n + 1]>>
          ELSE str(n \div 10) \o <<Digits[(n % 10) + 1]>>

\* the positions of character c in s
Positions(s, c) == {k \in 1..Len(s) : s[k] = c}

Max(S) == CHOOSE m \in S : \A k \in S : k <= m

Contains(s, c) == Positions(s, c) # {}

\* s.replace(c, r) for a one-character c
replace(s, c, r) == [k \in 1..Len(s) |-> IF s[k] = c THEN r ELSE s[k]]

\* s.rsplit('.', 1): a list of two parts split at the final '.', or the list
\* holding s alone when s has no '.'
rsplit_dot(s) ==
    IF Contains(s, ".")
    THEN LET k == Max(Positions(s, "."))
         IN  <<SubSeq(s, 1, k - 1), SubSeq(s, k + 1, Len(s))>>
    ELSE <<s>>

\* s without its trailing '/' characters
RECURSIVE rstrip_slash(_)
rstrip_slash(s) ==
    IF s # <<>> /\ s[Len(s)] = "/" THEN rstrip_slash(SubSeq(s, 1, Len(s) - 1))
    ELSE s

\* os.path.split(p): <<head, tail>>, split at the final '/'; head loses its
\* trailing slashes unless it is the root
os_path_split(p) ==
    IF Contains(p, "/")
    THEN LET k == Max(Positions(p, "/"))
             h == SubSeq(p, 1, k)
         IN  <<IF rstrip_slash(h) = <<>> THEN h ELSE rstrip_slash(h),
               SubSeq(p, k + 1, Len(p))>>
    ELSE <<<<>>, p>>

----------------------------------------------------------------------------
(* The file system, as os.path and os see it *)

\* os.path.isfile(p)
isfile(F, p) == p \in DOMAIN F

\* os.path.isdir(p): trailing separators are ignored; '/' is the root
isdir(D, p) ==
    /\ p # <<>>
    /\ \/ rstrip_slash(p) = <<>>
       \/ rstrip_slash(p) \in D

\* the directory a path's entry lives in exists (the empty head is the
\* working directory)
parent_exists(D, p) ==
    LET h == os_path_split(p)[1]
    IN  h = <<>> \/ isdir(D, h)

\* p and every ancestor directory of p
Ancestors(p) ==
    {SubSeq(p, 1, k - 1) : k \in {j \in Positions(p, "/") : j > 1}} \cup {p}

\* os.makedirs(p): [ok, dirs]; fails when a component is a regular file
os_makedirs(F, D, p) ==
    LET q == rstrip_slash(p)
    IN  IF \E a \in Ancestors(q) : isfile(F, a)
        THEN [ok |-> FALSE, dirs |-> D]
        ELSE [ok |-> TRUE, dirs |-> D \cup Ancestors(q)]

\* os.rename(src, dst) on POSIX: [ok, files]; an existing regular file at
\* dst is silently replaced
os_rename(F, D, src, dst) ==
    IF \/ ~isfile(F, src)
       \/ dst = <<>>
       \/ dst[Len(dst)] = "/"
       \/ isdir(D, dst)
       \/ ~parent_exists(D, dst)
    THEN [ok |-> FALSE, files |-> F]
    ELSE [ok |-> TRUE,
          files |-> [q \in (DOMAIN F \ {src}) \cup {dst} |->
                        IF q = dst THEN F[src] ELSE F[q]]]

----------------------------------------------------------------------------
(* CoreLog *)

\* CoreLog.date_stamper(): the clock's reading, which the model leaves abstract
date_stamper == "[now]"

\* the rlog and elog setters: None empties the stream, anything else is
\* appended with its time stamp
log_set(log, value) ==
    IF value = "None" THEN <<>> ELSE Append(log, <<date_stamper, value>>)

\* CoreLog.elogger(value): every entry of value is appended as it is
elogger(log, value) == log \o value

\* CoreError(log).elog, a list of stamped entries
CoreError(msg) == log_set(<<>>, msg)

----------------------------------------------------------------------------
(* MuzikArkive.rename_file *)

illegal_name_characters ==
    <<"/", "\\", "?", "%", "*", ":", "|", "\"", "<", ">">>

\* the loop over illegal_name_characters from index j on: the name with each
\* one replaced by '_', and one run-log message for each character found
RECURSIVE sanitize_loop(_, _, _, _)
sanitize_loop(name, j, msgs, where) ==
    IF j > Len(illegal_name_characters) THEN [name |-> name, msgs |-> msgs]
    ELSE LET c == illegal_name_characters[j]
         IN  IF Contains(name, c)
             THEN sanitize_loop(replace(name, c, "_"), j + 1,
                                Append(msgs, <<c, "was removed from", where>>),
                                where)
             ELSE sanitize_loop(name, j + 1, msgs, where)

\* '[' + str(i) + '].'
addon(i) == <<"[">> \o str(i) \o <<"]", ".">>

probe_not_least(F, head, tail, i) ==
    i + Cardinality(DOMAIN F)

\* the while loop of rename_file: the first index from i on whose candidate
\* path is not an existing file
RECURSIVE probe(_, _, _, _)
probe(F, head, tail, i) ==
    IF ~isfile(F, head \o addon(i) \o tail) THEN i
    ELSE probe(F, head, tail, i + 1)

RenameResult(outcome, F, D, msgs, final, index) ==
    [outcome |-> outcome, files |-> F, dirs |-> D, msgs |-> msgs,
     final |-> final, index |-> index]

rename_file_no_check(F, D, source, destination, oserr) ==
    LET mv == os_rename(F, D, source, destination)
    IN  IF mv.ok THEN RenameResult("ok", mv.files, D, <<>>, destination, 0)
        ELSE RenameResult("CoreError", F, D, <<>>, <<>>, 0)

\* rename_file(source, destination, alog) in file system (F, D); oserr names
\* the system call the environment makes fail, if any. The result holds the
\* outcome, the new file system, the run-log messages written, the path the
\* source was moved to and the collision index used (0: none).
rename_file(F, D, source, destination, oserr) ==
    IF ~isfile(F, source)
    THEN RenameResult("CoreError", F, D, <<>>, <<>>, 0)
    ELSE
    LET head == os_path_split(destination)[1]
        tail == os_path_split(destination)[2]
        need == ~isdir(D, head \o <<"/">>)
        mk   == os_makedirs(F, D, head \o <<"/">>)
    IN
    IF need /\ (oserr = "makedirs" \/ ~mk.ok)
    THEN RenameResult("CoreError", F, D, <<>>, <<>>, 0)
    ELSE
    LET D1   == IF need THEN mk.dirs ELSE D
        san  == sanitize_loop(tail, 1, <<>>, destination)
    IN
    IF ~isfile(F, destination)
    THEN LET mv == os_rename(F, D1, source, destination)
         IN  IF oserr = "rename" \/ ~mv.ok
             THEN RenameResult("CoreError", F, D1, san.msgs, <<>>, 0)
             ELSE RenameResult("ok", mv.files, D1, san.msgs, destination, 0)
    ELSE LET parts == rsplit_dot(destination)
         IN
         IF Len(parts) # 2
         THEN RenameResult("ValueError", F, D1, san.msgs, <<>>, 0)
         ELSE LET n    == probe(F, parts[1], parts[2], 1)
                  dst  == parts[1] \o addon(n) \o parts[2]
                  mv   == os_rename(F, D1, source, dst)
              IN  IF oserr = "rename" \/ ~mv.ok
                  THEN RenameResult("CoreError", F, D1, san.msgs, <<>>, 0)
                  ELSE RenameResult("ok", mv.files, D1, san.msgs, dst, n)

----------------------------------------------------------------------------
(* Renaming: any sequence of rename_file calls on a small file system *)

MaxCalls == 2

fa  == <<"a", ".", "x">>
fb  == <<"b", ".", "x">>
fc  == <<"c", ".", "x">>
fa1 == <<"a", "[", "1", "]", ".", "x">>
fn  == <<"n">>
fda == <<"d", "/", "a", ".", "x">>
fq  == <<"q", "?", ".", "x">>

InitPaths    == {fa, fb, fc, fa1, fn}
Sources      == {fa, fb, fc, fa1}
Destinations == {fa, fn, fda, fq}
OsErrors     == {"none", "makedirs", "rename"}

NoCall == [op |-> "none"]

reorder_vars ==
    <<pc, flist, file_i, er_count, attempted, answers, nfailed, raised>>

\* no reorder_folder call is under way
ReorderIdle ==
    /\ pc = "idle"
    /\ flist = <<>>
    /\ file_i = 0
    /\ er_count = 0
    /\ attempted = <<>>
    /\ answers = <<>>
    /\ nfailed = 0
    /\ raised = "none"
NoStreak == [dst |-> <<>>, idx |-> <<>>]

\* a path of the form stem[j].ext for destination d
IsCandidate(d, p) ==
    /\ Len(rsplit_dot(d)) = 2
    /\ \E j \in 1..(MaxCalls + 2) :
          p = rsplit_dot(d)[1] \o addon(j) \o rsplit_dot(d)[2]

\* the indices of the successive collision renames onto one destination,
\* counted from a state holding none of its candidates, sources fresh
NextStreak(s, F, source, destination, r) ==
    IF r.outcome = "ok" /\ r.index > 0 /\ ~IsCandidate(destination, source)
    THEN IF s.dst = destination
         THEN [s EXCEPT !.idx = Append(@, r.index)]
         ELSE IF \A p \in DOMAIN F : ~IsCandidate(destination, p)
              THEN [dst |-> destination, idx |-> <<r.index>>]
              ELSE NoStreak
    ELSE NoStreak

InitRename ==
    /\ \E S \in SUBSET InitPaths : files = [p \in S |-> p]
    /\ dirs = {}
    /\ rlog = <<>>
    /\ elog = <<>>
    /\ ncalls = 0
    /\ call = NoCall
    /\ landed = NoStreak
    /\ handles = 0
    /\ ReorderIdle

RenameFile ==
    \E source \in Sources, destination \in Destinations, oserr \in OsErrors :
        LET r == rename_file(files, dirs, source, destination, oserr)
        IN  /\ ncalls < MaxCalls
            /\ files' = r.files
            /\ dirs' = r.dirs
            /\ rlog' = rlog \o [k \in 1..Len(r.msgs) |-> <<date_stamper, r.msgs[k]>>]
            /\ elog' = elog
            /\ ncalls' = ncalls + 1
            /\ call' = [op |-> "rename_file", source |-> source,
                        destination |-> destination, before |-> files,
                        outcome |-> r.outcome, final |-> r.final,
                        index |-> r.index, msgs |-> r.msgs]
            /\ landed' = NextStreak(landed, files, source, destination, r)
            /\ UNCHANGED <<handles, reorder_vars>>

NextRename == RenameFile

SpecRename == InitRename /\ [][NextRename]_vars

\* C1: a rename_file call that returns without error leaves the source at a
\* path that was not an existing file before the call, and every other file
\* that existed before the call still exists with its content, also when the
\* destination exists and when the source is the destination.
C1_NeverOverwrites ==
    (call.op = "rename_file" /\ call.outcome = "ok") =>
        /\ call.final \notin DOMAIN call.before
        /\ call.final \in DOMAIN files
        /\ files[call.final] = call.before[call.source]
        /\ \A p \in DOMAIN call.before \ {call.source} :
              p \in DOMAIN files /\ files[p] = call.before[p]

C1_Witness ==
    /\ call.op = "rename_file"
    /\ call.outcome = "ok"
    /\ call.source = call.destination
    /\ Cardinality(DOMAIN call.before) > 1

C13_DestinationSanitized ==
    LET illegal == {illegal_name_characters[j] :
                      j \in 1..Len(illegal_name_characters)}
        head == os_path_split(call.destination)[1]
        tail == os_path_split(call.destination)[2]
        found == {c \in illegal : Contains(tail, c)}
        sanitized == [k \in 1..Len(tail) |->
                        IF tail[k] \in illegal THEN "_" ELSE tail[k]]
    IN  (call.op = "rename_file" /\ call.outcome = "ok" /\ found # {}) =>
            /\ os_path_split(call.final)[1] = head
            /\ call.index = 0 => os_path_split(call.final)[2] = sanitized
            /\ call.index > 0 =>
                  /\ Len(rsplit_dot(sanitized)) = 2
                  /\ os_path_split(call.final)[2] =
                        rsplit_dot(sanitized)[1] \o addon(call.index)
                            \o rsplit_dot(sanitized)[2]
            /\ Len(call.msgs) = Cardinality(found)
            /\ \A c \in found : \E k \in 1..Len(call.msgs) : call.msgs[k][1] = c

----------------------------------------------------------------------------
(* The tag library, and MuzikArkive.filename_formatter *)

ARTIST      == <<"A", "R", "T", "I", "S", "T">>
TITLE       == <<"T", "I", "T", "L", "E">>
TRACKNUMBER == <<"T", "R", "A", "C", "K", "N", "U", "M", "B", "E", "R">>

\* taglib.File(path): OSError, or a handle with its tags (key -> list of values)
taglib_OSError == [ok |-> FALSE]
taglib_File(tags, length) ==
    [ok |-> TRUE, tags |-> tags, length |-> length, channels |-> 2,
     bitrate |-> 128, sampleRate |-> 44100]

clean_only_first(sub_name, j) ==
    replace(sub_name, illegal_name_characters[1], "_")

\* the loop over illegal_name_characters from index j on: sub_name with each
\* one replaced by '_'
RECURSIVE clean(_, _)
clean(sub_name, j) ==
    IF j > Len(illegal_name_characters) THEN sub_name
    ELSE clean(replace(sub_name, illegal_name_characters[j], "_"), j + 1)

\* the loop over order_format from index k on: new_name with, for each token,
\* the cleaned first value of the tag of that name, or the token itself when
\* song.tags[token][0] raises (no such key, or no value)
RECURSIVE format_loop(_, _, _, _)
format_loop(tags, order_format, k, new_name) ==
    IF k > Len(order_format) THEN new_name
    ELSE LET token == order_format[k]
         IN  IF token \in DOMAIN tags /\ Len(tags[token]) > 0
             THEN format_loop(tags, order_format, k + 1,
                              new_name \o clean(tags[token][1], 1))
             ELSE format_loop(tags, order_format, k + 1, new_name \o token)

\* filename_formatter(source, destination, file, order_format), song being
\* what taglib.File(file) gives: the outcome, the value returned, and the
\* number of handles left open
filename_formatter(song, destination, file, order_format) ==
    IF ~song.ok
    THEN [outcome |-> "CoreError", value |-> <<>>, open |-> 0]
    ELSE LET new_name == format_loop(song.tags, order_format, 1, destination)
             parts    == rsplit_dot(file)
         IN  IF Len(parts) < 2
             THEN [outcome |-> "IndexError", value |-> <<>>, open |-> 1]
             ELSE [outcome |-> "ok",
                   value |-> new_name \o <<".">> \o parts[2], open |-> 0]

\* Formatting: filename_formatter on any of a set of inputs
ArtistValues ==
    { <<>>, << <<"A", "/", "B">> >>, << <<"<", "*", ">">>, <<"Z">> >> }
TitleValues ==
    { << <<"S", "o", "n", "g">> >>, << <<>> >>, << <<"a", "\\", "?", "b">> >> }
TagRecords ==
    { [k \in K |-> IF k = ARTIST THEN a ELSE t] :
        K \in SUBSET {ARTIST, TITLE}, a \in ArtistValues, t \in TitleValues }
Templates ==
    { <<ARTIST, <<"/">>, TITLE>>, <<TITLE>>, <<>>,
      << <<"/">>, ARTIST, <<".", " ">>, ARTIST>> }
SongFiles ==
    { <<"m", "/", "s", ".", "o", "g", "g">>, <<"m", "/", "o", "g", "g">>,
      <<"m", ".", "n", "/", "s">>, <<"s", ".", "t", ".", "m", "p", "3">> }
Roots == { <<>>, <<"d", "/">> }

InitFormat ==
    /\ files = <<>>
    /\ dirs = {}
    /\ rlog = <<>>
    /\ elog = <<>>
    /\ ncalls = 0
    /\ landed = NoStreak
    /\ handles = 0
    /\ ReorderIdle
    /\ \E song \in {taglib_OSError} \cup {taglib_File(t, 0) : t \in TagRecords},
          destination \in Roots, file \in SongFiles, order_format \in Templates :
          call = [op |-> "filename_formatter", song |-> song,
                  destination |-> destination, file |-> file,
                  order_format |-> order_format,
                  outcome |-> "pending", value |-> <<>>]

FormatName ==
    /\ call.op = "filename_formatter"
    /\ call.outcome = "pending"
    /\ LET r == filename_formatter(call.song, call.destination, call.file,
                                   call.order_format)
       IN  /\ call' = [call EXCEPT !.outcome = r.outcome, !.value = r.value]
           /\ handles' = handles + r.open
    /\ ncalls' = ncalls + 1
    /\ UNCHANGED <<files, dirs, rlog, elog, landed, reorder_vars>>

NextFormat == FormatName

SpecFormat == InitFormat /\ [][NextFormat]_vars

RECURSIVE JoinAll(_)
JoinAll(parts) ==
    IF parts = <<>> THEN <<>> ELSE Head(parts) \o JoinAll(Tail(parts))

\* C6: filename_formatter returns the destination, then for each token in
\* order the first value of that tag with every illegal character replaced
\* by '_' if the tags hold the token with a value, else the token itself,
\* then '.' and what follows the final '.' of the source path; so ARTIST
\* 'A/B', TITLE 'Song' under [ARTIST, '/', TITLE] give 'A_B/Song.' + ext.
C6_FormattedName ==
    (call.op = "filename_formatter" /\ call.outcome = "ok") =>
        LET tags == call.song.tags
            bad == {"/", "\\", "?", "%", "*", ":", "|", "\"", "<", ">"}
            piece(t) ==
                IF t \in DOMAIN tags /\ tags[t] # <<>>
                THEN [k \in 1..Len(tags[t][1]) |->
                        IF tags[t][1][k] \in bad THEN "_" ELSE tags[t][1][k]]
                ELSE t
            pieces == [k \in 1..Len(call.order_format) |->
                          piece(call.order_format[k])]
        IN  /\ \E k \in 1..Len(call.file) :
                 /\ call.file[k] = "."
                 /\ \A j \in (k + 1)..Len(call.file) : call.file[j] # "."
                 /\ call.value = call.destination \o JoinAll(pieces) \o <<".">>
                                   \o SubSeq(call.file, k + 1, Len(call.file))
            /\ (/\ call.order_format = <<ARTIST, <<"/">>, TITLE>>
                /\ DOMAIN tags = {ARTIST, TITLE}
                /\ tags[ARTIST] = << <<"A", "/", "B">> >>
                /\ tags[TITLE] = << <<"S", "o", "n", "g">> >>
                /\ call.file = <<"m", "/", "s", ".", "o", "g", "g">>) =>
                   call.value = call.destination
                      \o <<"A", "_", "B", "/", "S", "o", "n", "g", ".", "o", "g", "g">>

C6_Witness ==
    /\ call.op = "filename_formatter"
    /\ call.outcome = "ok"
    /\ call.order_format = <<ARTIST, <<"/">>, TITLE>>
    /\ call.value = <<"d", "/", "_", "_", "_", "/", "a", "_", "_", "b", ".", "n", "/", "s">>

----------------------------------------------------------------------------
(* MuzikArkive.reorder_folder, from the return of induct_folder on *)

MaxFiles == 12
MaxAnswers == 3

BreakerLimit == 10

breaker_trips_late(er) == er > BreakerLimit + 1

\* if er_count > 10
breaker_trips(er) == er > BreakerLimit

\* the files induct_folder returned: in folder 'm/', with the supported
\* extension 'ogg' or, for at most one of them, the bare name 'ogg'
SourceFile(k) == <<"m", "/">> \o str(k) \o <<".", "o", "g", "g">>
NoDotFile == <<"m", "/", "o", "g", "g">>
Inductions ==
    { [k \in 1..n |-> IF k = p THEN NoDotFile ELSE SourceFile(k)] :
        n \in {0, MaxFiles}, p \in 0..MaxFiles }

\* what taglib.File gives for a file of the batch
BatchSongs ==
    { taglib_OSError,
      taglib_File([k \in {ARTIST, TITLE} |->
               IF k = ARTIST THEN << <<"A", "/", "B">> >>
               ELSE << <<"S", "o", "n", "g">> >>], 0) }
BatchDestination == <<"d", "/">>
BatchFormat == <<ARTIST, <<"/">>, TITLE>>

\* how rename_file ends for a destination that has a '.': the file system
\* of the batch is not followed, so either outcome may occur
RenameOutcomes == {"ok", "CoreError"}

\* the prompt is on screen: the input() calls made so far
Prompts == Len(answers) + (IF pc = "prompt" THEN 1 ELSE 0)

\* the texts logged by the batch are kept by their kind alone: a run-log
\* message, an error with its count, the cause chained to it
RunMessage == "run"
CauseMessage == "cause"

InitReorder ==
    /\ files = <<>>
    /\ dirs = {}
    /\ elog = <<>>
    /\ ncalls = 0
    /\ call = NoCall
    /\ landed = NoStreak
    /\ handles = 0
    /\ pc = "loop"
    /\ flist \in Inductions
    /\ rlog = log_set(log_set(<<>>, RunMessage), RunMessage)
    /\ file_i = 1
    /\ er_count = 0
    /\ attempted = <<>>
    /\ answers = <<>>
    /\ nfailed = 0
    /\ raised = "none"

\* one pass of the for loop: lines 441-458 for files[i], then the test of
\* er_count and, when it trips, the first input()
ReorderFile ==
    /\ pc = "loop"
    /\ file_i <= Len(flist)
    /\ \E song \in BatchSongs, ro \in RenameOutcomes :
         LET r   == filename_formatter(song, BatchDestination, flist[file_i],
                                       BatchFormat)
             ren == IF r.outcome = "ok" THEN ro ELSE "none"
             failed == r.outcome = "CoreError" \/ ren = "CoreError"
             er  == IF failed THEN er_count + 1 ELSE er_count
             rl1 == log_set(rlog, RunMessage)
             rl2 == IF r.outcome = "ok" THEN log_set(rl1, RunMessage) ELSE rl1
             cause == CoreError(CauseMessage)
         IN  /\ attempted' = Append(attempted, file_i)
             /\ handles' = handles + r.open
             /\ call' = [op |-> "reorder_file", index |-> file_i,
                         fmt |-> r.outcome, ren |-> ren,
                         er_before |-> er_count, elog_before |-> elog]
             /\ IF r.outcome = "IndexError"
                THEN /\ pc' = "raised"
                     /\ raised' = "IndexError"
                     /\ nfailed' = nfailed + 1
                     /\ rlog' = rl1
                     /\ UNCHANGED <<elog, er_count, file_i>>
                ELSE /\ rlog' = rl2
                     /\ elog' = IF failed
                                THEN elogger(log_set(elog, <<"failed, error count at", er>>),
                                             cause)
                                ELSE elog
                     /\ er_count' = er
                     /\ nfailed' = IF failed THEN nfailed + 1 ELSE nfailed
                     /\ raised' = raised
                     /\ IF breaker_trips(er)
                        THEN pc' = "prompt" /\ file_i' = file_i
                        ELSE pc' = "loop" /\ file_i' = file_i + 1
    /\ ncalls' = ncalls + 1
    /\ UNCHANGED <<files, dirs, landed, flist, answers>>

Answered(option) ==
    [op |-> "answer", option |-> option, index |-> file_i,
     er_before |-> er_count, elog_before |-> elog]

\* option == 'Y'
AnswerY ==
    /\ pc = "prompt"
    /\ answers' = Append(answers, "Y")
    /\ call' = Answered("Y")
    /\ er_count' = 0
    /\ pc' = "loop"
    /\ file_i' = file_i + 1
    /\ UNCHANGED <<files, dirs, rlog, elog, ncalls, landed, handles, flist,
                   attempted, nfailed, raised>>

\* option == 'N'
AnswerN ==
    /\ pc = "prompt"
    /\ answers' = Append(answers, "N")
    /\ call' = Answered("N")
    /\ pc' = "raised"
    /\ raised' = "CoreError"
    /\ UNCHANGED <<files, dirs, rlog, elog, ncalls, landed, handles, flist,
                   file_i, er_count, attempted, nfailed>>

\* option == 'S', which prints the error log, or any other input: the while
\* loop calls input() again
AnswerAgain ==
    /\ pc = "prompt"
    /\ Len(answers) < MaxAnswers
    /\ \E option \in {"S", "other"} :
          /\ answers' = Append(answers, option)
          /\ call' = Answered(option)
    /\ UNCHANGED <<files, dirs, rlog, elog, ncalls, landed, handles, pc, flist,
                   file_i, er_count, attempted, nfailed, raised>>

\* the loop is over
ReorderDone ==
    /\ pc = "loop"
    /\ file_i > Len(flist)
    /\ rlog' = log_set(rlog, RunMessage)
    /\ pc' = "done"
    /\ UNCHANGED <<files, dirs, elog, ncalls, call, landed, handles, flist,
                   file_i, er_count, attempted, answers, nfailed, raised>>

NextReorder ==
    \/ ReorderFile
    \/ AnswerY
    \/ AnswerN
    \/ AnswerAgain
    \/ ReorderDone

SpecReorder == InitReorder /\ [][NextReorder]_vars

\* C3: once induction has succeeded, reorder_folder ends with an error only
\* through the user's 'N' at the prompt: no problem with a single file (the
\* tag library cannot open it, its path has no '.', the move fails) ends it.
C3_OnlyUserAbort ==
    pc = "raised" =>
        /\ raised = "CoreError"
        /\ answers # <<>>
        /\ answers[Len(answers)] = "N"

\* C4: while the user always answers resume, the prompt has been shown
\* floor(F / 10) times whenever a file is about to be processed or the run
\* is over, F the failures so far: once per 10 failures, right after the
\* 10th, the 20th, ...
C4_PromptEveryTenFailures ==
    (/\ pc \in {"loop", "done"}
     /\ \A k \in 1..Len(answers) : answers[k] = "Y") =>
        Prompts = nfailed \div 10

\* C9: every file of the induction is attempted once, in order, whatever
\* happened to the files before it; a file that fails in filename_formatter
\* or rename_file adds one to the counter and at least one entry to the
\* error log, a file that succeeds changes neither; with no prompt in the
\* run the counter ends at the number of files that failed.
C9_EveryFileCounted ==
    /\ call.op = "reorder_file" =>
          IF call.fmt # "ok" \/ call.ren # "ok"
          THEN /\ er_count = call.er_before + 1
               /\ Len(elog) > Len(call.elog_before)
               /\ SubSeq(elog, 1, Len(call.elog_before)) = call.elog_before
          ELSE /\ er_count = call.er_before
               /\ elog = call.elog_before
    /\ attempted = [k \in 1..Len(attempted) |-> k]
    /\ (pc \in {"done", "raised"} /\ raised # "CoreError") =>
          Len(attempted) = Len(flist)
    /\ (pc \in {"done", "raised"} /\ Prompts = 0) => er_count = nfailed

C10_AtLoop == pc = "loop" => er_count <= 10

C10_Step ==
    /\ (pc = "prompt" /\ answers' = Append(answers, "Y")) =>
          /\ er_count' = 0
          /\ pc' = "loop"
          /\ file_i' = file_i + 1
          /\ attempted = [k \in 1..file_i |-> k]
          /\ attempted' = attempted
    /\ (pc = "prompt" /\ answers' = Append(answers, "N")) =>
          /\ pc' = "raised"
          /\ raised' = "CoreError"
          /\ attempted' = attempted
    /\ (pc = "prompt" /\ answers' = Append(answers, "S")) =>
          /\ er_count' = er_count
          /\ files' = files /\ dirs' = dirs
          /\ attempted' = attempted
          /\ pc' = "prompt"
          /\ Prompts' = Prompts + 1
    /\ pc = "raised" => UNCHANGED vars
    /\ attempted' # attempted => (pc = "loop" /\ er_count <= 10)

\* C10: at the prompt, 'Y' sets the counter to 0 and the loop goes on with
\* the next unprocessed file; 'N' raises the user-abort error, after which
\* no file is formatted or renamed; 'S' leaves the counter and the file
\* system as they are and the prompt is shown again; so the counter is at
\* most 10 whenever the next file starts being processed.
C10_BreakerAnswers == [](C10_AtLoop) /\ [][C10_Step]_vars

C10_Witness ==
    /\ Len(answers) = 2
    /\ answers[1] = "S"
    /\ answers[2] = "Y"
    /\ pc = "loop"
    /\ file_i <= Len(flist)
    /\ er_count = 0

----------------------------------------------------------------------------
(* convert_human_time and format_human_time *)

\* '0' + str(n) below 10, str(n) from 10 on
padded(n) == IF n < 10 THEN <<"0">> \o str(n) ELSE str(n)

\* format_human_time(h_time), h_time = [days, hours, minutes, seconds]
format_human_time(h_time) ==
    LET lead(k) == IF h_time[k] > 0 THEN padded(h_time[k]) \o <<":">> ELSE <<>>
    IN  lead(1) \o lead(2) \o padded(h_time[3]) \o <<":">> \o padded(h_time[4])

\* the locals of convert_human_time at its first line
time_start(time_length) ==
    [seconds |-> time_length, minutes |-> 0, hours |-> 0, days |-> 0]

\* the three while loops: the test and one pass of each
seconds_test(t) == t.seconds > 60
seconds_pass(t) == [t EXCEPT !.seconds = @ - 60, !.minutes = @ + 1]
minutes_test(t) == t.minutes > 60
minutes_pass(t) == [t EXCEPT !.minutes = @ - 60, !.hours = @ + 1]
hours_test(t) == t.hours > 24
hours_pass(t) == [t EXCEPT !.hours = @ - 24, !.days = @ + 1]

time_result(t) == format_human_time(<<t.days, t.hours, t.minutes, t.seconds>>)

RECURSIVE seconds_loop(_)
seconds_loop(t) == IF seconds_test(t) THEN seconds_loop(seconds_pass(t)) ELSE t
RECURSIVE minutes_loop(_)
minutes_loop(t) == IF minutes_test(t) THEN minutes_loop(minutes_pass(t)) ELSE t
RECURSIVE hours_loop(_)
hours_loop(t) == IF hours_test(t) THEN hours_loop(hours_pass(t)) ELSE t

\* convert_human_time(time_length), loops run to their end
convert_human_time(time_length) ==
    time_result(hours_loop(minutes_loop(seconds_loop(time_start(time_length)))))

\* Converting: convert_human_time on any of a set of durations, one pass of
\* a loop at a time
MaxSeconds == 130
Durations ==
    (0..MaxSeconds) \cup
    {3599, 3600, 3601, 3660, 3725, 86399, 86400, 86401, 90000, 90061, 176460}

InitTime ==
    /\ files = <<>>
    /\ dirs = {}
    /\ rlog = <<>>
    /\ elog = <<>>
    /\ ncalls = 0
    /\ landed = NoStreak
    /\ handles = 0
    /\ ReorderIdle
    /\ \E d \in Durations :
          call = [op |-> "convert_human_time", time_length |-> d,
                  t |-> time_start(d), at |-> "seconds", value |-> <<>>]

TimeUnchanged == UNCHANGED <<files, dirs, rlog, elog, ncalls, landed, handles,
                             reorder_vars>>

SecondsLoop ==
    /\ call.op = "convert_human_time" /\ call.at = "seconds"
    /\ call' = IF seconds_test(call.t)
               THEN [call EXCEPT !.t = seconds_pass(@)]
               ELSE [call EXCEPT !.at = "minutes"]
    /\ TimeUnchanged

MinutesLoop ==
    /\ call.op = "convert_human_time" /\ call.at = "minutes"
    /\ call' = IF minutes_test(call.t)
               THEN [call EXCEPT !.t = minutes_pass(@)]
               ELSE [call EXCEPT !.at = "hours"]
    /\ TimeUnchanged

HoursLoop ==
    /\ call.op = "convert_human_time" /\ call.at = "hours"
    /\ call' = IF hours_test(call.t)
               THEN [call EXCEPT !.t = hours_pass(@)]
               ELSE [call EXCEPT !.at = "returned", !.value = time_result(call.t)]
    /\ TimeUnchanged

NextTime ==
    \/ SecondsLoop
    \/ MinutesLoop
    \/ HoursLoop

SpecTime == InitTime /\ [][NextTime]_vars

\* s.split(c): the parts of s between the occurrences of c
RECURSIVE split(_, _)
split(s, c) ==
    IF ~Contains(s, c) THEN <<s>>
    ELSE LET k == CHOOSE j \in Positions(s, c) : \A m \in Positions(s, c) : j <= m
         IN  <<SubSeq(s, 1, k - 1)>> \o split(SubSeq(s, k + 1, Len(s)), c)

\* C7: for a duration of 86400 seconds or more convert_human_time gives a
\* string with a days component, four fields DD:HH:MM:SS (so for 86400 and
\* 90000); and for every duration the minutes and seconds fields are two
\* digits in 00..59.
C7_DaysAndRanges ==
    (call.op = "convert_human_time" /\ call.at = "returned") =>
        LET fields == split(call.value, ":")
            n == Len(fields)
            TwoDigits == {<<Digits[(v \div 10) + 1], Digits[(v % 10) + 1]>> :
                             v \in 0..59}
        IN  /\ call.time_length >= 86400 => n = 4
            /\ n >= 2
            /\ fields[n - 1] \in TwoDigits
            /\ fields[n] \in TwoDigits

----------------------------------------------------------------------------
(* Song: __init__ and tag_extractor *)

ALBUMARTIST == <<"A", "L", "B", "U", "M", "A", "R", "T", "I", "S", "T">>
ALBUM == <<"A", "L", "B", "U", "M">>
TRACKTOTAL == <<"T", "R", "A", "C", "K", "T", "O", "T", "A", "L">>
DESCRIPTION == <<"D", "E", "S", "C", "R", "I", "P", "T", "I", "O", "N">>
PERFORMER == <<"P", "E", "R", "F", "O", "R", "M", "E", "R">>
CONTACT == <<"C", "O", "N", "T", "A", "C", "T">>
ENCODED_BY == <<"E", "N", "C", "O", "D", "E", "D", "-", "B", "Y">>
COMMENT == <<"C", "O", "M", "M", "E", "N", "T">>
ORIGINALARTIST == <<"O", "R", "I", "G", "I", "N", "A", "L", "A", "R", "T", "I", "S", "T">>
URL == <<"U", "R", "L">>
ENCODEDBY == <<"E", "N", "C", "O", "D", "E", "D", "B", "Y">>
DISCNUMBER == <<"D", "I", "S", "C", "N", "U", "M", "B", "E", "R">>
GENRE == <<"G", "E", "N", "R", "E">>
DATE == <<"D", "A", "T", "E">>
COMPOSER == <<"C", "O", "M", "P", "O", "S", "E", "R">>
COPYRIGHT == <<"C", "O", "P", "Y", "R", "I", "G", "H", "T">>

vorbis_tags == {<<"o", "p", "u", "s">>, <<"o", "g", "g">>, <<"f", "l", "a", "c">>}
id3_tags == {<<"m", "p", "3">>}

\* song.tags.get(key, ''): the list of values, or the empty string
tags_get(tags, key) == IF key \in DOMAIN tags THEN tags[key] ELSE <<>>

TagResult(outcome, fields, open) ==
    [outcome |-> outcome, fields |-> fields, open |-> open]

\* tag_extractor() on a Song of type file_type, song being what
\* taglib.File(self.filename) gives: the outcome, the fields set, and the
\* number of handles left open
tag_extractor(file_type, song) ==
    IF ~song.ok THEN TagResult("CoreError", <<>>, 0)
    ELSE
    LET get(key) == tags_get(song.tags, key)
        common == [album_artist |-> get(ALBUMARTIST), artist |-> get(ARTIST),
                   album |-> get(ALBUM), title |-> get(TITLE),
                   disc_number |-> get(DISCNUMBER), genre |-> get(GENRE),
                   date |-> get(DATE), composer |-> get(COMPOSER),
                   copyright |-> get(COPYRIGHT),
                   length |-> convert_human_time(song.length),
                   channels |-> str(song.channels),
                   bit_rate |-> str(song.bitrate),
                   sample_rate |-> str(song.sampleRate)]
        special(tn, tt, d, pf, ct, eb) ==
            [track_number |-> tn, track_total |-> tt, description |-> d,
             performer |-> pf, contact |-> ct, encoded_by |-> eb]
        track_numbers == get(TRACKNUMBER)
    IN
    IF file_type \in vorbis_tags
    THEN TagResult("ok",
                   common @@ special(get(TRACKNUMBER), get(TRACKTOTAL),
                                     get(DESCRIPTION), get(PERFORMER),
                                     get(CONTACT), get(ENCODED_BY)), 0)
    ELSE IF file_type \in id3_tags
    THEN IF Len(track_numbers) = 0
         THEN TagResult("IndexError", <<>>, 1)
         ELSE LET parts == split(track_numbers[1], "/")
              IN  IF Len(parts) < 2
                  THEN TagResult("IndexError", <<>>, 1)
                  ELSE TagResult("ok",
                                 common @@ special(<<parts[1]>>, <<parts[2]>>,
                                                   get(COMMENT),
                                                   get(ORIGINALARTIST),
                                                   get(URL), get(ENCODEDBY)), 0)
    ELSE TagResult("ok", common @@ special(<<>>, <<>>, <<>>, <<>>, <<>>, <<>>), 0)

\* Song(a_file): file_type is what follows the final '.', then tag_extractor
Song_init(a_file, song) ==
    IF Len(rsplit_dot(a_file)) < 2 THEN TagResult("IndexError", <<>>, 0)
    ELSE tag_extractor(rsplit_dot(a_file)[2], song)

\* Extracting: Song(a_file) on any of a set of files and tag records
file_types == {<<"o", "p", "u", "s">>, <<"o", "g", "g">>, <<"f", "l", "a", "c">>, <<"m", "p", "3">>, <<"w", "m", "a">>, <<"w", "a", "v">>}
TrackValues == { <<>>, << <<"3">> >>, << <<"3", "/", "1", "2">> >> }
ExtractRecords ==
    { [k \in K |-> IF k = TRACKNUMBER THEN tn ELSE << <<"v">> >>] :
        K \in SUBSET {ARTIST, TRACKNUMBER, TRACKTOTAL, COMMENT, DESCRIPTION},
        tn \in TrackValues }
SongLengths == {0, 125}

InitTags ==
    /\ files = <<>>
    /\ dirs = {}
    /\ rlog = <<>>
    /\ elog = <<>>
    /\ ncalls = 0
    /\ landed = NoStreak
    /\ handles = 0
    /\ ReorderIdle
    /\ \E ext \in file_types,
          song \in {taglib_OSError}
                   \cup {taglib_File(t, n) : t \in ExtractRecords, n \in SongLengths} :
          call = [op |-> "Song", a_file |-> <<"s", ".">> \o ext, song |-> song,
                  outcome |-> "pending", fields |-> <<>>]

ExtractTags ==
    /\ call.op = "Song"
    /\ call.outcome = "pending"
    /\ LET r == Song_init(call.a_file, call.song)
       IN  /\ call' = [call EXCEPT !.outcome = r.outcome, !.fields = r.fields]
           /\ handles' = handles + r.open
    /\ ncalls' = ncalls + 1
    /\ UNCHANGED <<files, dirs, rlog, elog, landed, reorder_vars>>

NextTags == ExtractTags

SpecTags == InitTags /\ [][NextTags]_vars

\* C8: tag extraction on a file the tag library can open never raises over a
\* missing key: for comment-style and frame-style files alike an absent key,
\* TRACKNUMBER included, and a frame-style TRACKNUMBER without '/', give an
\* empty field in a record built as usual.
C8_MissingKeysAreEmpty ==
    (call.op = "Song" /\ call.outcome # "pending" /\ call.song.ok) =>
        LET tags == call.song.tags
            f == call.fields
        IN  /\ call.outcome = "ok"
            /\ ARTIST \notin DOMAIN tags => f.artist = <<>>
            /\ ALBUM \notin DOMAIN tags => f.album = <<>>
            /\ TRACKNUMBER \notin DOMAIN tags => f.track_number \in {<<>>, << <<>> >>}
            /\ (call.a_file[3] = "m" /\ COMMENT \notin DOMAIN tags) =>
                  f.description = <<>>
            /\ (call.a_file[3] # "m" /\ DESCRIPTION \notin DOMAIN tags) =>
                  f.description = <<>>

----------------------------------------------------------------------------
(* MuzikArkive.induct_folder *)

\* the elements of a finite set in some order
RECURSIVE SeqOf(_)
SeqOf(S) ==
    IF S = {} THEN <<>>
    ELSE LET x == CHOOSE y \in S : TRUE IN <<x>> \o SeqOf(S \ {x})

\* os.listdir(directory): the names of the entries of the directory, in the
\* order the system gives them
os_listdir(F, D, directory) ==
    SeqOf({os_path_split(p)[2] :
             p \in {q \in DOMAIN F \cup D :
                      os_path_split(q)[1] = rstrip_slash(directory)}})

\* the lists and the log an induction has built so far
Inducted(folders, fs, rl, el) ==
    [folders |-> folders, files |-> fs, rlog |-> rl, elog |-> el]

induct_except_dropped(acc, fullpath, er) ==
    [acc EXCEPT !.elog = elogger(@, <<>>)]

\* the except clause of the recursive call: one error-log entry holding the
\* message for fullpath and the log of the error caught
induct_except(acc, fullpath, er) ==
    [acc EXCEPT !.elog =
        log_set(@, <<"Recursive induct_folder() call failed for: ",
                     fullpath, er>>)]

RECURSIVE induct_folder(_, _, _, _, _)
RECURSIVE induct_loop(_, _, _, _, _, _, _)

\* the for loop of induct_folder over dir_contents, from index k on
induct_loop(F, D, NA, directory, dir_contents, k, acc) ==
    IF k > Len(dir_contents) THEN acc
    ELSE
    LET entry == directory \o dir_contents[k]
    IN
    IF isdir(D, entry)
    THEN LET fullpath == entry \o <<"/">>
             sub == induct_folder(F, D, NA, fullpath,
                                  [acc EXCEPT !.folders = Append(@, fullpath)])
         IN  induct_loop(F, D, NA, directory, dir_contents, k + 1,
                 IF sub.ok THEN sub.acc
                 ELSE induct_except(sub.acc, fullpath, sub.er))
    ELSE IF isfile(F, entry)
    THEN LET tail  == os_path_split(dir_contents[k])[2]
             tails == split(tail, ".")
         IN  induct_loop(F, D, NA, directory, dir_contents, k + 1,
                 IF tails[Len(tails)] \in file_types
                 THEN [acc EXCEPT !.files = Append(@, entry)]
                 ELSE acc)
    ELSE induct_loop(F, D, NA, directory, dir_contents, k + 1, acc)

\* induct_folder(directory, alog, fold, file) in file system (F, D), where
\* os.listdir fails for the directories NA: whether it returned, what it
\* raised, and the lists and the log after it
induct_folder(F, D, NA, directory, acc) ==
    IF ~isdir(D, directory) \/ rstrip_slash(directory) \in NA
    THEN [ok |-> FALSE, acc |-> acc,
          er |-> CoreError(<<"Failed to load directory: ", directory>>)]
    ELSE
    LET dir_contents == os_listdir(F, D, directory)
        began == [acc EXCEPT !.rlog =
                    log_set(log_set(@, <<"Beginning to induct ", directory>>),
                            <<str(Len(dir_contents)), " items to induct.">>)]
        done == induct_loop(F, D, NA, directory, dir_contents, 1, began)
    IN  [ok |-> TRUE,
         acc |-> [done EXCEPT !.rlog = log_set(@, "Finished induction.")],
         er |-> <<>>]

\* Inducting: induct_folder on the folder m of any of a set of small trees
dm   == <<"m">>
dms  == <<"m", "/", "s">>
dmst == <<"m", "/", "s", "/", "t">>
dmu  == <<"m", "/", "u">>
TreeDirs == { {dm}, {dm, dms}, {dm, dms, dmst}, {dm, dms, dmu},
              {dm, dms, dmst, dmu} }
TreeFiles ==
    { <<"m", "/", "a", ".", "o", "g", "g">>, <<"m", "/", "b", ".", "t", "x", "t">>,
      <<"m", "/", "o", "g", "g">>, <<"m", "/", "s", "/", "e", ".", "m", "p", "3">>,
      <<"m", "/", "s", "/", "t", "/", "f", ".", "a", ".", "f", "l", "a", "c">>,
      <<"m", "/", "u", "/", "g", ".", "w", "a", "v">> }
RootNames == { <<"m", "/">>, <<"m">> }

InitInduct ==
    /\ \E D \in TreeDirs :
         /\ dirs = D
         /\ \E S \in SUBSET {p \in TreeFiles : os_path_split(p)[1] \in D} :
               files = [p \in S |-> p]
         /\ \E NA \in SUBSET (D \ {dm}), directory \in RootNames :
               call = [op |-> "induct_folder", directory |-> directory,
                       noaccess |-> NA, outcome |-> "pending",
                       folders |-> <<>>, files |-> <<>>]
    /\ rlog = <<>>
    /\ elog = <<>>
    /\ ncalls = 0
    /\ landed = NoStreak
    /\ handles = 0
    /\ ReorderIdle

InductFolder ==
    /\ call.op = "induct_folder"
    /\ call.outcome = "pending"
    /\ LET r == induct_folder(files, dirs, call.noaccess, call.directory,
                              Inducted(<<>>, <<>>, rlog, elog))
       IN  /\ call' = [call EXCEPT
                         !.outcome = IF r.ok THEN "ok" ELSE "CoreError",
                         !.folders = IF r.ok THEN r.acc.folders ELSE <<>>,
                         !.files = IF r.ok THEN r.acc.files ELSE <<>>]
           /\ rlog' = r.acc.rlog
           /\ elog' = r.acc.elog
    /\ ncalls' = ncalls + 1
    /\ UNCHANGED <<files, dirs, landed, handles, reorder_vars>>

NextInduct == InductFolder

SpecInduct == InitInduct /\ [][NextInduct]_vars

Range(q) == {q[k] : k \in 1..Len(q)}

\* C5: on a readable tree induct_folder returns, each once, the full paths
\* of exactly the regular files whose text after the last '.' is a supported
\* extension, and one folder entry for every nested directory at any depth,
\* whether or not the root is named with a trailing separator.
C5_ExactInduction ==
    (call.op = "induct_folder" /\ call.outcome # "pending"
        /\ call.noaccess = {}) =>
        LET supported(p) ==
                \E k \in 1..Len(p) :
                    /\ p[k] = "."
                    /\ \A j \in (k + 1)..Len(p) : p[j] # "."
                    /\ SubSeq(p, k + 1, Len(p)) \in
                          { <<"o", "p", "u", "s">>, <<"o", "g", "g">>, <<"f", "l", "a", "c">>, <<"m", "p", "3">>, <<"w", "m", "a">>, <<"w", "a", "v">> }
        IN  /\ call.outcome = "ok"
            /\ Len(call.files) = Cardinality(Range(call.files))
            /\ Range(call.files) = {p \in DOMAIN files : supported(p)}
            /\ Len(call.folders) = Cardinality(Range(call.folders))
            /\ Range(call.folders) = {d \o <<"/">> : d \in dirs \ {dm}}

\* the directories an induction of directory calls os.listdir on: the
\* directory, and below every one that could be listed, each entry that
\* os.path.isdir accepts
RECURSIVE Listings(_, _, _)
Listings(D, NA, directory) ==
    {directory} \cup
    IF rstrip_slash(directory) \in NA THEN {}
    ELSE UNION { Listings(D, NA, e \o <<"/">>) :
                   e \in {d \in D :
                            /\ os_path_split(d)[1] = rstrip_slash(directory)
                            /\ d = directory \o os_path_split(d)[2]} }

\* the sub-directories whose listing failed during the call
FailedListings ==
    {d \in Listings(dirs, call.noaccess, call.directory) \ {call.directory} :
        rstrip_slash(d) \in call.noaccess}

\* the text after the last '.' of p is a supported extension
HasSupportedExtension(p) ==
    Len(rsplit_dot(p)) = 2 /\ rsplit_dot(p)[2] \in file_types

IsProperPrefix(a, b) == Len(a) < Len(b) /\ SubSeq(b, 1, Len(a)) = a

\* C11: when listing a sub-directory fails during induct_folder, the
\* top-level call returns; the error log gains exactly one chained entry for
\* each failed sub-directory; every folder and every supported file reachable
\* through the readable directories is returned, the failed sub-directory
\* included; and a folder stands before its descendants in the folder list.
C11_SubFailureContained ==
    (call.op = "induct_folder" /\ call.outcome # "pending"
        /\ FailedListings # {}) =>
        LET listed == Listings(dirs, call.noaccess, call.directory)
            readable == listed \ FailedListings
        IN  /\ call.outcome = "ok"
            /\ Len(elog) = Cardinality(FailedListings)
            /\ \A d \in FailedListings :
                  \E k \in 1..Len(elog) :
                     elog[k] = <<date_stamper,
                                 <<"Recursive induct_folder() call failed for: ",
                                   d,
                                   CoreError(<<"Failed to load directory: ", d>>)>>>>
            /\ listed \ {call.directory} \subseteq Range(call.folders)
            /\ {p \in DOMAIN files :
                   /\ HasSupportedExtension(p)
                   /\ (os_path_split(p)[1] \o <<"/">>) \in readable}
                 \subseteq Range(call.files)
            /\ \A i, j \in 1..Len(call.folders) :
                  IsProperPrefix(call.folders[i], call.folders[j]) => i < j

\* a listing of m/s failed, and the call went on into its sibling m/u
C11_Witness ==
    /\ call.op = "induct_folder"
    /\ call.outcome = "ok"
    /\ call.directory = <<"m", "/">>
    /\ call.noaccess = {dms}
    /\ dmst \in dirs
    /\ <<"m", "/", "s", "/">> \in Range(call.folders)
    /\ <<"m", "/", "u", "/", "g", ".", "w", "a", "v">> \in Range(call.files)
    /\ <<"m", "/", "a", ".", "o", "g", "g">> \in Range(call.files)
    /\ Len(elog) = 1

----------------------------------------------------------------------------
(* Tag-library handles: any sequence of Song() and filename_formatter calls *)

MaxOpens == 2

\* the tag records and the templates of these calls
HandleRecords == {t \in ExtractRecords : DOMAIN t \subseteq {TRACKNUMBER}}
HandleTemplates == { <<ARTIST, <<"/">>, TITLE>> }

InitHandles ==
    /\ files = <<>>
    /\ dirs = {}
    /\ rlog = <<>>
    /\ elog = <<>>
    /\ ncalls = 0
    /\ call = NoCall
    /\ landed = NoStreak
    /\ handles = 0
    /\ ReorderIdle

\* Song(a_file), taglib.File(a_file) giving song
SongCall ==
    /\ ncalls < MaxOpens
    /\ \E ext \in file_types,
          song \in {taglib_OSError}
                   \cup {taglib_File(t, n) : t \in HandleRecords, n \in SongLengths} :
          LET a_file == <<"s", ".">> \o ext
              r == Song_init(a_file, song)
          IN  /\ call' = [op |-> "Song", a_file |-> a_file, song |-> song,
                          outcome |-> r.outcome, fields |-> r.fields]
              /\ handles' = handles + r.open
    /\ ncalls' = ncalls + 1
    /\ UNCHANGED <<files, dirs, rlog, elog, landed, reorder_vars>>

\* filename_formatter(source, destination, file, order_format),
\* taglib.File(file) giving song
FormatterCall ==
    /\ ncalls < MaxOpens
    /\ \E song \in {taglib_OSError} \cup {taglib_File(t, 0) : t \in TagRecords},
          destination \in Roots, file \in SongFiles,
          order_format \in HandleTemplates :
          LET r == filename_formatter(song, destination, file, order_format)
          IN  /\ call' = [op |-> "filename_formatter", song |-> song,
                          destination |-> destination, file |-> file,
                          order_format |-> order_format,
                          outcome |-> r.outcome, value |-> r.value]
              /\ handles' = handles + r.open
    /\ ncalls' = ncalls + 1
    /\ UNCHANGED <<files, dirs, rlog, elog, landed, reorder_vars>>

NextHandles ==
    \/ SongCall
    \/ FormatterCall

SpecHandles == InitHandles /\ [][NextHandles]_vars

\* C12: after every call of Song() or filename_formatter, whether it
\* returned or raised, no tag-library handle it opened is still open; no
\* sequence of calls leaves one open.
C12_HandlesClosed ==
    call.op \in {"Song", "filename_formatter"} => handles = 0

----------------------------------------------------------------------------
(* CoreLog: any sequence of writes to a session log *)

MaxWrites == 3

\* what is assigned to rlog and elog: messages, and None
LogValues == {"a", "b", "None"}

\* the elog of a CoreError that was raised, and chained once
ErrorLogs == {CoreError("a"), log_set(CoreError("a"), "b")}

\* CoreLog(): both streams through their setters with the default None
InitLog ==
    /\ files = <<>>
    /\ dirs = {}
    /\ rlog = log_set(<<>>, "None")
    /\ elog = log_set(<<>>, "None")
    /\ ncalls = 0
    /\ call = NoCall
    /\ landed = NoStreak
    /\ handles = 0
    /\ ReorderIdle

\* a write, its argument, and both streams as they were before it
Written(op, value) ==
    [op |-> op, value |-> value, rlog |-> rlog, elog |-> elog]

\* alog.rlog = value
SetRlog ==
    /\ ncalls < MaxWrites
    /\ \E value \in LogValues :
          /\ rlog' = log_set(rlog, value)
          /\ call' = Written("rlog", value)
    /\ ncalls' = ncalls + 1
    /\ UNCHANGED <<files, dirs, elog, landed, handles, reorder_vars>>

\* alog.elog = value
SetElog ==
    /\ ncalls < MaxWrites
    /\ \E value \in LogValues :
          /\ elog' = log_set(elog, value)
          /\ call' = Written("elog", value)
    /\ ncalls' = ncalls + 1
    /\ UNCHANGED <<files, dirs, rlog, landed, handles, reorder_vars>>

\* alog.elogger(value)
Elogger ==
    /\ ncalls < MaxWrites
    /\ \E value \in ErrorLogs \cup {<<>>} :
          /\ elog' = elogger(elog, value)
          /\ call' = Written("elogger", value)
    /\ ncalls' = ncalls + 1
    /\ UNCHANGED <<files, dirs, rlog, landed, handles, reorder_vars>>

\* the except clause of Commander around reorder_folder: two messages, the
\* entries of er.elog, and er.elog.pop(), which shortens the error's own
\* list (recorded as the argument left)
CommanderExcept ==
    /\ ncalls < MaxWrites
    /\ \E er \in ErrorLogs :
          /\ elog' = elogger(log_set(elog, "reorder_folder() failed."), er)
          /\ call' = Written("except", SubSeq(er, 1, Len(er) - 1))
    /\ rlog' = log_set(rlog, "reorder_folder() failed.")
    /\ ncalls' = ncalls + 1
    /\ UNCHANGED <<files, dirs, landed, handles, reorder_vars>>

NextLog ==
    \/ SetRlog
    \/ SetElog
    \/ Elogger
    \/ CommanderExcept

SpecLog == InitLog /\ [][NextLog]_vars

IsPrefix(a, b) == Len(a) <= Len(b) /\ SubSeq(b, 1, Len(a)) = a

\* C14: after every write to a CoreLog (rlog = value, elog = value for any
\* value, None included, elogger(value)) the former content of the stream
\* written is a prefix of its content, so that no earlier entry is altered or
\* removed, and the other stream is as it was.
C14_AppendOnly ==
    /\ call.op = "rlog" => IsPrefix(call.rlog, rlog) /\ elog = call.elog
    /\ call.op \in {"elog", "elogger"} =>
          IsPrefix(call.elog, elog) /\ rlog = call.rlog
    /\ call.op = "except" =>
          IsPrefix(call.rlog, rlog) /\ IsPrefix(call.elog, elog)

====
